---- MODULE Spec2Model ----
(***************************************************************************)
(* State-machine model of GestureStore (src/app/src/gesture-store.ts):     *)
(* the gesture catalog with its index-aligned matcher array, the sensor    *)
(* frame handler with its bounded history, the host message protocol and   *)
(* the debounced persistence of the catalog.                               *)
(*                                                                         *)
(* JavaScript arrays are 0-based; the model keeps 0-based indices in       *)
(* curGestureIndex and in the arguments of the array helpers, and stores   *)
(* the arrays themselves as TLA+ sequences (1-based).                      *)
(***************************************************************************)
EXTENDS Integers, Sequences, FiniteSets, TLC

----------------------------------------------------------------------------
(* Program constants *)

READING_HISTORY_LIMIT == 30

\* wait argument of debounce(() => this.saveBlocksNow(), 2000), milliseconds
DebounceWait == 2000

----------------------------------------------------------------------------
(* Bounds of the model *)

\* most gestures in the published catalog
MaxGestures == 2
\* most samples in one gesture
MaxSamples == 1
\* distinct recorded samples the user can add
NumSamples == 2
\* largest gesture id the Gesture constructor hands out
MaxGestureID == 3
\* the same, in the specifications with a small catalog
FewGestureIDs == 2
\* gestures and gesture ids of the specifications with one gesture
FewGestures == 1
\* samples of the specifications with a small catalog
FewSamples == 1
\* most sensor frames ingested in the specifications of the handlers
MaxTicks == 2
\* most sensor frames ingested in the feed specification
MaxFeedTicks == 36
\* most sensor frames ingested in the match specification
MaxMatchTicks == 11
\* most entries of the match list
MaxMatches == 2
\* longest interval (endTime - startTime) of a reported match
MaxMatchSpan == 5
\* most requests sendRequest builds
MaxRequests == 5
\* milliseconds that pass in one step of the clock
TimeStep == 500

----------------------------------------------------------------------------
(* JavaScript array helpers, 0-based indices *)

Range(s) == {s[i] : i \in 1..Len(s)}

Min2(a, b) == IF a < b THEN a ELSE b
Max2(a, b) == IF a > b THEN a ELSE b

\* Array.prototype.indexOf / findIndex with an equality test: first index or -1
RECURSIVE IndexFrom(_, _, _)
IndexFrom(s, x, i) ==
    IF i > Len(s) THEN -1
    ELSE IF s[i] = x THEN i - 1
    ELSE IndexFrom(s, x, i + 1)

IndexOf(s, x) == IndexFrom(s, x, 1)

\* s[i] is defined (i is an own index of the array)
HasIndex(s, i) == i >= 0 /\ i < Len(s)

\* s[i] for an own index
At(s, i) == s[i + 1]

\* Array.prototype.splice(start, 1): a negative start counts from the end,
\* a start past the end removes nothing
SpliceStart(s, start) ==
    IF start < 0 THEN Max2(Len(s) + start, 0) ELSE Min2(start, Len(s))

Splice1(s, start) ==
    LET k == SpliceStart(s, start)
    IN  [i \in 1..(Len(s) - (IF k < Len(s) THEN 1 ELSE 0)) |->
            IF i <= k THEN s[i] ELSE s[i + 1]]

\* Array.prototype.unshift(x)
Unshift(s, x) == <<x>> \o s

----------------------------------------------------------------------------
(* Numbers of the sensor path.                                             *)
(* parseInt yields an integer or NaN; the model's frames carry 0, 1 or NaN.*)
(* A smoothed value is a binary fraction 0.b1 b2 b3 ... kept as its digit  *)
(* sequence, which is exact: with alpha = 0.5 the filter computes          *)
(* (value + previousSmoothed) / 2, whose digits are the digit of value     *)
(* followed by the digits of previousSmoothed.  A double holds 53 such     *)
(* digits, more than the longest run of frames of any specification here.  *)

\* parseInt's NaN
NaN == -1

\* null, as JSON.parse returns it
Null == -2

\* the recorded samples a caller passes to addSample: a sample is the sequence
\* of its readings; every second one was recorded over a truncated frame and
\* holds a NaN
Recording(s) == IF s % 2 = 0 THEN <<s, NaN>> ELSE <<s>>

Zero == [nan |-> FALSE, bits |-> <<>>]
NaNValue == [nan |-> TRUE, bits |-> <<>>]

RECURSIVE TrimZeros(_)
TrimZeros(bits) ==
    IF bits = <<>> THEN bits
    ELSE IF bits[Len(bits)] = 0 THEN TrimZeros(SubSeq(bits, 1, Len(bits) - 1))
    ELSE bits

\* createLowPassFilter's closure: alpha * value + (1 - alpha) * previousSmoothed
LowPass(value, prev) ==
    IF value = NaN \/ prev.nan THEN NaNValue
    ELSE [nan |-> FALSE, bits |-> TrimZeros(<<value>> \o prev.bits)]

MotionReading(x, y, z) == [x |-> x, y |-> y, z |-> z]

\* tokens of a console payload after split(" ")
Tokens == {"A", "0", "1", "x"}

ParseInt(tok) == IF tok = "0" THEN 0 ELSE IF tok = "1" THEN 1 ELSE NaN

\* strBufArray[i], undefined past the end
Tok(toks, i) == IF HasIndex(toks, i) THEN At(toks, i) ELSE "undefined"

RECURSIVE ParseLoop(_, _, _)
ParseLoop(toks, i, result) ==
    IF i >= Len(toks) THEN result
    ELSE IF Tok(toks, i) = "A"
         THEN ParseLoop(toks, i + 4,
                  [acc |-> TRUE,
                   accVec |-> MotionReading(ParseInt(Tok(toks, i + 1)),
                                            ParseInt(Tok(toks, i + 2)),
                                            ParseInt(Tok(toks, i + 3)))])
         ELSE ParseLoop(toks, i + 1, result)

parseString(toks) ==
    ParseLoop(toks, 0, [acc |-> FALSE, accVec |-> MotionReading(0, 0, 0)])

----------------------------------------------------------------------------
(* Gestures, matchers and the serialized catalog *)

\* references to Gesture objects; the published array and the array a reader
\* holds each keep at most MaxGestures objects alive
Refs == 1..(2 * MaxGestures)

\* prototype of a matcher that was never updated, and of a new Gesture
NoPrototype == [cls |-> 0, from |-> <<>>]

\* a free cell of the heap
Blank == [gestureID |-> 0, name |-> 0, samples |-> <<>>, displayGesture |-> NoPrototype]

\* new Gesture(): the constructor's id and its default name, which numbers
\* the gesture by its id
NewGesture(id) ==
    [gestureID |-> id, name |-> id, samples |-> <<>>,
     displayGesture |-> NoPrototype]

\* Gesture.getCroppedData(): the cropped data of the samples, in list order
getCroppedData(g) == g.samples

\* new SingleDTWCore(classNumber, name)
NewModel(classNumber, name) ==
    [classNumber |-> classNumber, name |-> name, data |-> <<>>, tick |-> 0,
     running |-> FALSE, fedAt |-> 0]

\* SingleDTWCore.update(data, latestTimestamp)
Update(m, data, tick) ==
    [m EXCEPT !.data = data, !.tick = tick, !.running = (data # <<>>)]

\* fault variant: every matcher reports running
AlwaysRunning(m) == TRUE

isRunning(m) == m.running

\* SingleDTWCore.feed(accVec): the matcher consumes the frame of the tick
Feed(m, accVec, tick) == [m EXCEPT !.fedAt = tick]

\* SingleDTWCore.prototype
Prototype(m) == [cls |-> m.classNumber, from |-> m.data]

\* SingleDTWCore.generateBlock()
generateBlock(m) == [cls |-> m.classNumber, name |-> m.name, from |-> m.data]

\* SingleDTWCore.generateNamespace(codeBlocks)
generateNamespace(codeBlocks) == codeBlocks

\* the text of a json argument: absent, "", "null", text that does not parse
\* to an array, or the text of an array of gesture records
Missing == [kind |-> "undefined", val |-> <<>>]
Empty == [kind |-> "empty", val |-> <<>>]
NullText == [kind |-> "null", val |-> <<>>]
NotArray == [kind |-> "other", val |-> <<>>]
ArrayText(records) == [kind |-> "array", val |-> records]

NoBody == [code |-> <<>>, json |-> Missing]

----------------------------------------------------------------------------
(* State *)

VARIABLES
    gestures,         \* this.gestures: the published array, references to Gesture objects
    heap,             \* the Gesture objects: reference -> fields
    models,           \* this.models: the matchers, by value
    curGestureIndex,  \* this.curGestureIndex
    hasBeenModified,  \* this.hasBeenModified
    connected,        \* this.connected: "undefined", "true" or "false"
    readings,         \* this.readings
    latestTimestamp,  \* this.latestTimestamp
    matches,          \* this.matches
    previousSmoothed, \* previousSmoothed of filterX, filterY, filterZ
    idToType,         \* this.idToType: correlation id -> action
    requestCount,     \* how many requests sendRequest has built; the ids are 1..requestCount
    sent,             \* the envelopes sendRequest built in the last handler, in order
    embedded,         \* window.parent && window != window.parent
    timeout,          \* debounce's timeout: a timer handle, 0 for null/undefined
    timers,           \* the pending timers of setTimeout: {[h, elapsed]}
    nextGestureID,    \* the id the next new Gesture() receives
    reader,           \* whether a reader holds an array: "none", "same" (the published one), "old"
    readerArr,        \* the contents of the array the reader holds
    returned,         \* what the last call of isMatch returned to its caller
    frames,           \* history: the raw vectors notified to the frame handler, in order
    sinceMark,        \* history: milliseconds since the last markDirty call, up to DebounceWait
    selected          \* history: the id last given to setCurrentGesture while its gesture
                      \* stays in the catalog, else 0

storeVars == <<gestures, heap, models, curGestureIndex, hasBeenModified, connected,
               readings, latestTimestamp, matches, previousSmoothed, nextGestureID>>
hostVars == <<idToType, requestCount, embedded>>
timerVars == <<timeout, timers, sinceMark>>
readerVars == <<reader, readerArr>>

vars == <<gestures, heap, models, curGestureIndex, hasBeenModified, connected,
          readings, latestTimestamp, matches, previousSmoothed, idToType,
          requestCount, sent, embedded, timeout, timers, nextGestureID, reader, readerArr,
          returned, frames, sinceMark, selected>>

----------------------------------------------------------------------------
(* The heap of Gesture objects.                                            *)
(* References are kept canonical: after every handler the published array  *)
(* holds the references 1..n in order, and the objects only a reader still *)
(* holds follow.  Which number names an object is not observable.          *)

\* the references of held that are not in seen, each once, in order
RECURSIVE Extra(_, _)
Extra(held, seen) ==
    IF held = <<>> THEN <<>>
    ELSE IF Head(held) \in seen THEN Extra(Tail(held), seen)
    ELSE <<Head(held)>> \o Extra(Tail(held), seen \cup {Head(held)})

\* the handler leaves the published array arr, the reader state rd with the
\* array held, and the objects h; objects nothing refers to are collected
Commit(arr, rd, held, h) ==
    LET ord == arr \o Extra(held, Range(arr))
    IN  /\ gestures' = [i \in 1..Len(arr) |-> IndexOf(ord, arr[i]) + 1]
        /\ readerArr' = [i \in 1..Len(held) |-> IndexOf(ord, held[i]) + 1]
        /\ heap' = [r \in Refs |-> IF r <= Len(ord) THEN h[ord[r]] ELSE Blank]
        /\ reader' = rd

\* a reference no array holds
FreshRef == CHOOSE r \in Refs : r \notin Range(gestures) \cup Range(readerArr)

\* the array is changed in place: a reader holding it sees the change
InPlace(arr, h) == Commit(arr, reader, IF reader = "same" THEN arr ELSE readerArr, h)

\* this.gestures = arr: a new array is published by reference swap
Publish(arr, h) == Commit(arr, IF reader = "same" THEN "old" ELSE reader, readerArr, h)

\* only fields of Gesture objects change
KeepArray(h) == Commit(gestures, reader, readerArr, h)

\* neither the array nor an object is touched
KeepCatalog == UNCHANGED <<gestures, heap, reader, readerArr>>

\* this.gestures.findIndex(g => g.gestureID === gestureId)
RECURSIVE FindGestureFrom(_, _)
FindGestureFrom(gestureId, i) ==
    IF i > Len(gestures) THEN -1
    ELSE IF heap[gestures[i]].gestureID = gestureId THEN i - 1
    ELSE FindGestureFrom(gestureId, i + 1)

FindGesture(gestureId) == FindGestureFrom(gestureId, 1)

\* get currentModel(): defined when the index is an own index of models
HasCurrentModel == HasIndex(models, curGestureIndex)
currentModel == At(models, curGestureIndex)

\* get currentGesture()
HasCurrentGesture == HasIndex(gestures, curGestureIndex)
currentGesture == At(gestures, curGestureIndex)

----------------------------------------------------------------------------
(* debounce and markDirty *)

\* setTimeout's handle: the least positive integer no pending timer has
NewHandle(pending) ==
    CHOOSE h \in 1..(Cardinality(pending) + 1) : \A t \in pending : t.h # h

\* fault variant: debounce without its clearTimeout
KeepTimers == timers

\* clearTimeout(timeout)
ClearTimeout == {t \in timers : t.h # timeout}

\* the function debounce returns, immediate undefined:
\* clearTimeout(timeout); timeout = setTimeout(later, wait)
Debounced ==
    LET h == NewHandle(ClearTimeout)
    IN  /\ timers' = ClearTimeout \cup {[h |-> h, elapsed |-> 0]}
        /\ timeout' = h

markDirty ==
    /\ hasBeenModified' = TRUE
    /\ IF ~hasBeenModified THEN Debounced ELSE UNCHANGED <<timeout, timers>>
    /\ sinceMark' = 0

\* a handler that does not reach markDirty
NotDirtied == UNCHANGED <<hasBeenModified, timeout, timers, sinceMark>>

\* no call of isMatch has returned
NoReturn == [readingIndex |-> -1, result |-> FALSE]

\* the handler builds no request and is no call of isMatch
Quiet == sent' = <<>> /\ returned' = NoReturn

\* the selection of id stands while the catalog the handler leaves holds a
\* gesture with that id
StillSelected(id) ==
    selected' = IF \E i \in 1..Len(gestures') : heap'[gestures'[i]].gestureID = id
                THEN id ELSE 0

----------------------------------------------------------------------------
(* Catalog operations *)

\* this.models.push(model) of addGesture
AddGestureModels(g) == Append(models, NewModel(g.gestureID + 1, g.name))

\* fault variant: the length of the array taken for the index of its last element
PastLastIndex(arr) == Len(arr)

\* this.gestures.length - 1 of addGesture
LastIndex(arr) == Len(arr) - 1

\* maxGestures bounds the catalog, maxID the ids handed out
addGesture(maxGestures, maxID) ==
    /\ Len(gestures) < maxGestures
    /\ nextGestureID <= maxID
    /\ LET g == NewGesture(nextGestureID)
           arr == Append(gestures, FreshRef)
       IN  /\ InPlace(arr, [heap EXCEPT ![FreshRef] = g])
           /\ curGestureIndex' = LastIndex(arr)
           /\ models' = AddGestureModels(g)
    /\ nextGestureID' = nextGestureID + 1
    /\ NotDirtied
    /\ Quiet
    /\ selected' = 0
    /\ UNCHANGED <<connected, readings, latestTimestamp, matches, previousSmoothed,
                   hostVars, frames>>

setCurrentGesture(gestureId) ==
    /\ LET idx == FindGesture(gestureId)
       IN  /\ curGestureIndex' = idx
           /\ IF HasIndex(models, idx)
              THEN models' = [models EXCEPT ![idx + 1] =
                         Update(@, getCroppedData(heap[At(gestures, idx)]), latestTimestamp)]
              ELSE \* TypeError: this.currentModel is undefined
                   models' = models
    /\ KeepCatalog
    /\ NotDirtied
    /\ Quiet
    /\ StillSelected(gestureId)
    /\ UNCHANGED <<connected, readings, latestTimestamp, matches, previousSmoothed,
                   nextGestureID, hostVars, frames>>

\* fault variant: the matcher aligned with the edited gesture
EditedGestureIndex(g) == IndexOf(gestures, g)

\* the index of gestureStore.currentModel, the matcher addSample updates
AddSampleModelIndex(g) == curGestureIndex

\* the tail of addSample once the sample is in the list: update the current
\* matcher, set the display prototype, publish, mark dirty
AddSampleTail(g, unshifted) ==
    IF HasIndex(models, AddSampleModelIndex(g))
    THEN LET m == Update(At(models, AddSampleModelIndex(g)), getCroppedData(unshifted),
                         latestTimestamp)
         IN  /\ models' = [models EXCEPT ![AddSampleModelIndex(g) + 1] = m]
             /\ Publish(gestures,
                        [heap EXCEPT ![g] = [unshifted EXCEPT !.displayGesture = Prototype(m)]])
             /\ markDirty
    ELSE \* TypeError: gestureStore.currentModel is undefined
         /\ KeepArray([heap EXCEPT ![g] = unshifted])
         /\ models' = models
         /\ NotDirtied

\* maxSamples bounds the sample list
addSample(g, newSample, maxSamples) ==
    /\ LET gestureIndex == IndexOf(gestures, g)
       IN  IF gestureIndex < 0
           THEN \* TypeError: cloneData[-1] is undefined
                /\ KeepCatalog
                /\ NotDirtied
                /\ models' = models
           ELSE /\ Len(heap[g].samples) < maxSamples
                /\ newSample \notin Range(heap[g].samples)
                /\ AddSampleTail(g, [heap[g] EXCEPT !.samples = Unshift(@, newSample)])
    /\ Quiet
    /\ UNCHANGED <<curGestureIndex, connected, readings, latestTimestamp, matches,
                   previousSmoothed, nextGestureID, hostVars, frames, selected>>

deleteSample(g, sample) ==
    /\ LET gi == IndexOf(gestures, g)
       IN  IF gi < 0
           THEN \* TypeError: this.gestures[-1] is undefined
                /\ KeepCatalog
                /\ NotDirtied
                /\ models' = models
           ELSE LET si == IndexOf(heap[g].samples, sample)
                    spliced == [heap[g] EXCEPT !.samples = Splice1(@, si)]
                IN  IF HasIndex(models, gi)
                    THEN LET m == Update(At(models, gi), getCroppedData(spliced), latestTimestamp)
                         IN  /\ models' = [models EXCEPT ![gi + 1] = m]
                             /\ Publish(gestures,
                                        [heap EXCEPT ![g] =
                                            [spliced EXCEPT !.displayGesture = Prototype(m)]])
                             /\ markDirty
                    ELSE \* TypeError: model is undefined
                         /\ KeepArray([heap EXCEPT ![g] = spliced])
                         /\ models' = models
                         /\ NotDirtied
    /\ Quiet
    /\ UNCHANGED <<curGestureIndex, connected, readings, latestTimestamp, matches,
                   previousSmoothed, nextGestureID, hostVars, frames, selected>>

\* fault variant: the matcher of the removed gesture is left in place
ModelsKept == models

\* this.models.splice(this.curGestureIndex, 1) of deleteIfGestureEmpty
DeleteIfEmptyModels == Splice1(models, curGestureIndex)

deleteIfGestureEmpty ==
    /\ IF Len(gestures) > 0 /\ HasCurrentGesture /\ heap[currentGesture].samples = <<>>
       THEN /\ Publish(Splice1(gestures, curGestureIndex), heap)
            /\ models' = DeleteIfEmptyModels
       ELSE \* nothing to delete, or TypeError: gestures[curGestureIndex] is undefined
            /\ KeepCatalog
            /\ models' = models
    /\ NotDirtied
    /\ Quiet
    /\ StillSelected(selected)
    /\ UNCHANGED <<curGestureIndex, connected, readings, latestTimestamp, matches,
                   previousSmoothed, nextGestureID, hostVars, frames>>

\* fault variant: the last matcher is removed, whichever gesture is deleted
DeleteLastModel(index) == Splice1(models, -1)

\* this.models.splice(index, 1) of deleteGesture
DeleteGestureModels(index) == Splice1(models, index)

deleteGesture(g) ==
    /\ LET index == IndexOf(gestures, g)
       IN  IF index >= 0
           THEN /\ InPlace(Splice1(gestures, index), heap)
                /\ models' = DeleteGestureModels(index)
                /\ markDirty
           ELSE /\ KeepCatalog
                /\ NotDirtied
                /\ models' = models
    /\ Quiet
    /\ StillSelected(selected)
    /\ UNCHANGED <<curGestureIndex, connected, readings, latestTimestamp, matches,
                   previousSmoothed, nextGestureID, hostVars, frames>>

\* a reader (an observer of the store) takes a reference to the published array
takeReference ==
    /\ Commit(gestures, "same", gestures, heap)
    /\ NotDirtied
    /\ Quiet
    /\ UNCHANGED <<models, curGestureIndex, connected, readings, latestTimestamp, matches,
                   previousSmoothed, nextGestureID, hostVars, frames, selected>>

----------------------------------------------------------------------------
(* The sensor frame handler *)

\* fault variant: pop() in place of shift(), the newest reading is evicted
TrimNewest(rs) ==
    IF Len(rs) > READING_HISTORY_LIMIT THEN SubSeq(rs, 1, Len(rs) - 1) ELSE rs

\* if (this.readings.length > READING_HISTORY_LIMIT) this.readings.shift()
TrimHistory(rs) == IF Len(rs) > READING_HISTORY_LIMIT THEN Tail(rs) ELSE rs

\* fault variant: the tick counter is not advanced
TimestampKept == latestTimestamp

\* this.latestTimestamp++
NextTimestamp == latestTimestamp + 1

\* what SingleDTWCore.feed can return at a tick: a Match ending at that tick
FeedMatches(tick) ==
    {[startTime |-> Max2(tick - span, 0), endTime |-> tick] : span \in {0, MaxMatchSpan}}

\* the callback registered with serialData; found says whether feed returns
\* the Match match
FrameHandler(accVec, found, match) ==
    LET accelX == LowPass(accVec.x, previousSmoothed.x)
        accelY == LowPass(accVec.y, previousSmoothed.y)
        accelZ == LowPass(accVec.z, previousSmoothed.z)
    IN  /\ previousSmoothed' = [x |-> accelX, y |-> accelY, z |-> accelZ]
        /\ readings' = TrimHistory(Append(readings, MotionReading(accelX, accelY, accelZ)))
        /\ latestTimestamp' = NextTimestamp
        /\ IF HasCurrentModel /\ isRunning(currentModel)
           THEN /\ models' = [models EXCEPT ![curGestureIndex + 1] =
                                  Feed(@, accVec, NextTimestamp)]
                /\ IF found
                   THEN /\ Len(matches) < MaxMatches
                        /\ match \in FeedMatches(NextTimestamp)
                        /\ matches' = Append(matches, match)
                   ELSE matches' = matches
           ELSE /\ ~found
                /\ models' = models
                /\ matches' = matches
        /\ frames' = Append(frames, accVec)

----------------------------------------------------------------------------
(* The host channel *)

\* sendRequest(action, body): the envelope, given to postMessage when the
\* page is embedded in the host's frame
Envelope(id, action, body) ==
    [id |-> id, action |-> action, body |-> body, posted |-> embedded]

\* sendRequest(action, body): this.idToType[id] = action, id fresh
Recorded(map, id, action) ==
    [i \in (DOMAIN map) \cup {id} |-> IF i = id THEN action ELSE map[i]]

\* the two requests of "extshown" and of the response to "extinit"
SubscribeAndRead(map) ==
    /\ requestCount + 2 <= MaxRequests
    /\ requestCount' = requestCount + 2
    /\ sent' = <<Envelope(requestCount + 1, "extdatastream", NoBody),
                 Envelope(requestCount + 2, "extreadcode", NoBody)>>
    /\ idToType' = Recorded(Recorded(map, requestCount + 1, "extdatastream"),
                            requestCount + 2, "extreadcode")

\* JSON has no NaN: JSON.stringify writes null for it and JSON.parse reads null
JSONvalue(v) == IF v = NaN THEN Null ELSE v

\* a sample, or the data of a prototype, as JSON.stringify writes it
JSONsample(sample) == [k \in 1..Len(sample) |-> JSONvalue(sample[k])]

\* the records of an array of gestures as JSON.stringify writes them
JSONrecords(records) ==
    [i \in 1..Len(records) |->
        [gestureID |-> records[i].gestureID,
         name |-> records[i].name,
         samples |-> [k \in 1..Len(records[i].samples) |->
                         JSONsample(records[i].samples[k])],
         displayGesture |->
             [cls |-> records[i].displayGesture.cls,
              from |-> [k \in 1..Len(records[i].displayGesture.from) |->
                           JSONsample(records[i].displayGesture.from[k])]]]]

\* JSON.stringify(this.gestures, null, 2)
JSONstringify(arr) == ArrayText(JSONrecords([i \in 1..Len(arr) |-> heap[arr[i]]]))

\* Gesture.parseGesture(importedGesture)
parseGesture(rec) ==
    [gestureID |-> rec.gestureID, name |-> rec.name, samples |-> rec.samples,
     displayGesture |-> rec.displayGesture]

\* the matchers loadBlocks builds for the parsed gestures
LoadedModels(parsed) ==
    [i \in 1..Len(parsed) |->
        Update(NewModel(parsed[i].gestureID + 1, parsed[i].name),
               getCroppedData(parsed[i]), latestTimestamp)]

\* the id counter of Gesture once the records are parsed: above every parsed id
RECURSIVE NextIDAfter(_, _)
NextIDAfter(parsed, next) ==
    IF parsed = <<>> THEN next
    ELSE NextIDAfter(Tail(parsed), Max2(next, Head(parsed).gestureID + 1))

\* fault variant: a text that parses to null taken for an empty catalog
NullAsEmpty(json) == json.kind \in {"array", "null"}

\* neither !json nor !jsonGestures: the text parses to an array
IsCatalog(json) == json.kind = "array"

loadBlocks(json) ==
    IF IsCatalog(json)
    THEN LET parsed == [i \in 1..Len(json.val) |-> parseGesture(json.val[i])]
             \* the new Gesture objects take references no reader holds
             free == Extra([r \in 1..Cardinality(Refs) |-> r], Range(readerArr))
             refs == SubSeq(free, 1, Len(parsed))
             placed == [r \in Refs |->
                          IF r \in Range(refs) THEN parsed[IndexOf(refs, r) + 1] ELSE heap[r]]
         IN  /\ Publish(refs, placed)
             /\ models' = LoadedModels(parsed)
             /\ nextGestureID' = NextIDAfter(parsed, nextGestureID)
    ELSE \* !json, JSON.parse gives null, or TypeError: jsonGestures.map is not a function
         /\ KeepCatalog
         /\ models' = models
         /\ nextGestureID' = nextGestureID

\* catalogs the host has stored for the project
SavedOne ==
    ArrayText(<<[gestureID |-> 1, name |-> 1, samples |-> <<Recording(1)>>,
                 displayGesture |-> [cls |-> 2, from |-> <<Recording(1)>>]]>>)
SavedTwo ==
    ArrayText(<<[gestureID |-> 1, name |-> 1, samples |-> <<>>,
                 displayGesture |-> NoPrototype],
                [gestureID |-> 2, name |-> 2, samples |-> <<Recording(1)>>,
                 displayGesture |-> [cls |-> 3, from |-> <<Recording(1)>>]]>>)

\* the json texts the host can answer a read with
HostTexts == {Missing, Empty, NullText, NotArray, SavedOne, SavedTwo}

\* the same, without the catalog of two gestures and the text that is no array
EventTexts == {Missing, Empty, NullText, SavedOne}

\* fault variant: the pending entry is looked up but not removed
NotDeleted(map, id) == map

\* delete this.idToType[data.id]
Deleted(map, id) == [i \in (DOMAIN map) \ {id} |-> map[i]]

\* receiveMessage for a message that is no event
receiveResponse(id, json) ==
    /\ embedded
    /\ LET action == IF id \in DOMAIN idToType THEN idToType[id] ELSE "undefined"
           deleted == Deleted(idToType, id)
       IN  CASE action = "extinit" ->
                    /\ SubscribeAndRead(deleted)
                    /\ KeepCatalog
                    /\ UNCHANGED <<models, nextGestureID>>
              [] action = "extreadcode" ->
                    /\ idToType' = deleted
                    /\ requestCount' = requestCount
                    /\ sent' = <<>>
                    /\ loadBlocks(json)
              [] OTHER ->
                    /\ idToType' = deleted
                    /\ requestCount' = requestCount
                    /\ sent' = <<>>
                    /\ KeepCatalog
                    /\ UNCHANGED <<models, nextGestureID>>
    /\ NotDirtied
    /\ returned' = NoReturn
    /\ StillSelected(selected)
    /\ UNCHANGED <<curGestureIndex, connected, readings, latestTimestamp, matches,
                   previousSmoothed, embedded, frames>>

\* receiveMessage, event "extconsole": limit bounds the frames ingested
extconsole(sim, toks, limit) ==
    /\ embedded
    /\ IF sim
       THEN UNCHANGED <<connected, readings, latestTimestamp, matches, previousSmoothed,
                        frames, models>>
       ELSE LET newData == parseString(toks)
            IN  /\ IF newData.acc
                   THEN /\ latestTimestamp < limit
                        /\ \E found \in BOOLEAN, match \in FeedMatches(NextTimestamp) :
                              FrameHandler(newData.accVec, found, match)
                   ELSE UNCHANGED <<readings, latestTimestamp, matches, previousSmoothed,
                                    frames, models>>
                /\ connected' = "true"
    /\ KeepCatalog
    /\ NotDirtied
    /\ Quiet
    /\ UNCHANGED <<curGestureIndex, nextGestureID, hostVars, selected>>

\* receiveMessage, event "extshown"
extshown ==
    /\ embedded
    /\ connected' = "true"
    /\ SubscribeAndRead(idToType)
    /\ KeepCatalog
    /\ NotDirtied
    /\ returned' = NoReturn
    /\ UNCHANGED <<models, curGestureIndex, readings, latestTimestamp, matches,
                   previousSmoothed, nextGestureID, embedded, frames, selected>>

\* receiveMessage, event "exthidden"
exthidden ==
    /\ embedded
    /\ connected' = "false"
    /\ KeepCatalog
    /\ NotDirtied
    /\ Quiet
    /\ UNCHANGED <<models, curGestureIndex, readings, latestTimestamp, matches,
                   previousSmoothed, nextGestureID, hostVars, frames, selected>>

----------------------------------------------------------------------------
(* Persistence *)

\* fault variant: the blocks of all matchers, running or not
AllBlocks == [i \in 1..Len(models) |-> generateBlock(models[i])]

\* this.models.filter(m => m.isRunning()).map(m => m.generateBlock())
CodeBlocks ==
    LET running == SelectSeq(models, isRunning)
    IN  [i \in 1..Len(running) |-> generateBlock(running[i])]

\* this.hasBeenModified = false of saveBlocksNow
FlagAfterFlush == FALSE

saveBlocksNow ==
    IF ~hasBeenModified
    THEN /\ UNCHANGED <<hasBeenModified, requestCount, idToType, gestures, heap, reader,
                        readerArr>>
         /\ sent' = <<>>
    ELSE /\ requestCount < MaxRequests
         /\ requestCount' = requestCount + 1
         /\ sent' = <<Envelope(requestCount + 1, "extwritecode",
                               [code |-> generateNamespace(CodeBlocks),
                                json |-> JSONstringify(gestures)])>>
         /\ idToType' = Recorded(idToType, requestCount + 1, "extwritecode")
         /\ hasBeenModified' = FlagAfterFlush
         /\ Publish(gestures, heap)

\* a timer of debounce is due: later() runs
timerFires(t) ==
    /\ t \in timers
    /\ t.elapsed >= DebounceWait
    /\ timers' = timers \ {t}
    /\ timeout' = 0
    /\ saveBlocksNow
    /\ sinceMark' = DebounceWait
    /\ returned' = NoReturn
    /\ UNCHANGED <<models, curGestureIndex, connected, readings, latestTimestamp,
                   matches, previousSmoothed, nextGestureID, embedded, frames, selected>>

\* a direct call of the public debounced function saveBlocks
saveBlocks ==
    /\ Debounced
    /\ KeepCatalog
    /\ Quiet
    /\ UNCHANGED <<models, curGestureIndex, hasBeenModified, connected, readings,
                   latestTimestamp, matches, previousSmoothed, nextGestureID, hostVars,
                   frames, sinceMark, selected>>

\* step milliseconds pass while a timer is pending
advance(step) ==
    /\ \E t \in timers : t.elapsed < DebounceWait
    /\ timers' = {[h |-> t.h, elapsed |-> Min2(t.elapsed + step, DebounceWait)] : t \in timers}
    /\ sinceMark' = Min2(sinceMark + step, DebounceWait)
    /\ KeepCatalog
    /\ Quiet
    /\ UNCHANGED <<models, curGestureIndex, hasBeenModified, connected, readings,
                   latestTimestamp, matches, previousSmoothed, nextGestureID, hostVars,
                   frames, timeout, selected>>

\* a direct call of the public method markDirty
MarkDirty ==
    /\ markDirty
    /\ KeepCatalog
    /\ Quiet
    /\ UNCHANGED <<models, curGestureIndex, connected, readings, latestTimestamp,
                   matches, previousSmoothed, nextGestureID, hostVars, frames, selected>>

----------------------------------------------------------------------------
(* isMatch *)

\* this.latestTimestamp - (this.readings.length - 1 - readingIndex)
MatchTime(readingIndex) == latestTimestamp - (Len(readings) - 1 - readingIndex)

\* fault variant: the interval of a match taken without its end points
WithinOpen(m, time) == m.startTime < time /\ time < m.endTime

\* m => m.startTime <= time && time <= m.endTime
Within(m, time) == m.startTime <= time /\ time <= m.endTime

\* this.matches.findIndex(...)
RECURSIVE FindMatchFrom(_, _)
FindMatchFrom(time, i) ==
    IF i > Len(matches) THEN -1
    ELSE IF Within(matches[i], time) THEN i - 1
    ELSE FindMatchFrom(time, i + 1)

isMatch(readingIndex) == FindMatchFrom(MatchTime(readingIndex), 1) >= 0

\* a call of isMatch by an observer of the store
IsMatchCall(readingIndex) ==
    /\ returned' = [readingIndex |-> readingIndex, result |-> isMatch(readingIndex)]
    /\ sent' = <<>>
    /\ KeepCatalog
    /\ NotDirtied
    /\ UNCHANGED <<models, curGestureIndex, connected, readings, latestTimestamp,
                   matches, previousSmoothed, nextGestureID, hostVars, frames, selected>>

----------------------------------------------------------------------------
(* Specifications *)

\* the constructor: the filters start at 0 and "extinit" is requested
Init ==
    /\ gestures = <<>>
    /\ heap = [r \in Refs |-> Blank]
    /\ models = <<>>
    /\ curGestureIndex = 0
    /\ hasBeenModified = FALSE
    /\ connected = "undefined"
    /\ readings = <<>>
    /\ latestTimestamp = 0
    /\ matches = <<>>
    /\ previousSmoothed = [x |-> Zero, y |-> Zero, z |-> Zero]
    /\ embedded \in BOOLEAN
    /\ requestCount = 1
    /\ sent = <<Envelope(1, "extinit", NoBody)>>
    /\ idToType = (1 :> "extinit")
    /\ timeout = 0
    /\ timers = {}
    /\ nextGestureID = 1
    /\ reader = "none"
    /\ readerArr = <<>>
    /\ returned = NoReturn
    /\ frames = <<>>
    /\ sinceMark = DebounceWait
    /\ selected = 0

\* console payloads: a frame, no frame, a truncated frame, two frames in one
FramePayload == <<"A", "1", "0", "1">>
FeedPayloads == {FramePayload, <<"x">>}
Payloads ==
    FeedPayloads \cup {<<"A", "1">>, <<"x", "A", "0", "1", "0", "A", "1", "1", "0">>}

\* the user's and the host's inputs
AddGesture(maxGestures, maxID) == addGesture(maxGestures, maxID)
SetCurrentGesture(maxID) == \E gestureId \in 1..maxID : setCurrentGesture(gestureId)
\* the Gesture objects a caller can pass: those of the published array, those
\* a reader holds, and one that is in neither
Callable == Range(gestures) \cup Range(readerArr) \cup {FreshRef}

AddSample(numSamples, maxSamples) ==
    \E g \in Callable, s \in 1..numSamples : addSample(g, Recording(s), maxSamples)
DeleteSample(numSamples) ==
    \E g \in Callable, s \in 1..numSamples : deleteSample(g, Recording(s))
DeleteGesture == \E g \in Callable : deleteGesture(g)
\* setCurrentGesture with the id of a gesture of the catalog
SetExistingGesture == \E g \in Range(gestures) : setCurrentGesture(heap[g].gestureID)
\* a response to any request ever made, or to none (id 0)
ReceiveResponse == \E id \in 0..requestCount, json \in HostTexts : receiveResponse(id, json)
\* a response to a pending "extinit" or "extreadcode" request
ReceiveAnswer(texts) ==
    \E id \in {i \in DOMAIN idToType : idToType[i] \in {"extinit", "extreadcode"}},
       json \in texts : receiveResponse(id, json)
ExtConsole(payloads, limit) ==
    \E sim \in BOOLEAN, toks \in payloads : extconsole(sim, toks, limit)
IsMatch == \E readingIndex \in 0..(Len(readings) - 1) : IsMatchCall(readingIndex)
\* the host answers a read with the serialization of the catalog as it is:
\* what the store wrote last, when nothing was edited since
ReceiveWritten == ReceiveAnswer({JSONstringify(gestures)})
TimerFires == \E t \in timers : timerFires(t)
Elapse == advance(DebounceWait)
Tick == advance(TimeStep)

\* the catalog and its hydration
Next ==
    \/ AddGesture(MaxGestures, MaxGestureID)
    \/ SetCurrentGesture(MaxGestureID)
    \/ AddSample(NumSamples, MaxSamples)
    \/ DeleteSample(NumSamples)
    \/ DeleteGesture
    \/ deleteIfGestureEmpty
    \/ ReceiveAnswer(HostTexts)

Spec == Init /\ [][Next]_vars

\* the catalog seen by a reader that holds a reference to the published array
NextReader ==
    \/ AddGesture(MaxGestures, FewGestureIDs)
    \/ SetCurrentGesture(FewGestureIDs)
    \/ AddSample(FewSamples, FewSamples)
    \/ DeleteSample(FewSamples)
    \/ DeleteGesture
    \/ deleteIfGestureEmpty
    \/ takeReference

SpecReader == Init /\ [][NextReader]_vars

\* the sensor stream of a page that is shown and hidden: frames and payloads
\* without a frame
NextFeed ==
    \/ ExtConsole(FeedPayloads, MaxFeedTicks)
    \/ extshown
    \/ exthidden

SpecFeed == Init /\ [][NextFeed]_vars

\* the console payloads of every shape, on a page that is shown and hidden
NextConsole ==
    \/ ExtConsole(Payloads, MaxTicks)
    \/ extshown
    \/ exthidden

SpecConsole == Init /\ [][NextConsole]_vars

\* one trained gesture, the sensor stream with its matches, and isMatch
NextMatch ==
    \/ AddGesture(FewGestures, FewGestures)
    \/ AddSample(FewSamples, FewSamples)
    \/ ExtConsole({FramePayload}, MaxMatchTicks)
    \/ IsMatch

SpecMatch == Init /\ [][NextMatch]_vars

\* markDirty, the debounced saveBlocks and the clock, in steps of TimeStep
NextClock ==
    \/ MarkDirty
    \/ saveBlocks
    \/ Tick
    \/ TimerFires

SpecClock == Init /\ [][NextClock]_vars

\* the catalog and its persistence; time passes a whole debounce delay at a step
NextSave ==
    \/ AddGesture(MaxGestures, FewGestureIDs)
    \/ SetCurrentGesture(FewGestureIDs)
    \/ AddSample(FewSamples, FewSamples)
    \/ DeleteSample(FewSamples)
    \/ DeleteGesture
    \/ deleteIfGestureEmpty
    \/ ReceiveAnswer(HostTexts)
    \/ saveBlocks
    \/ Elapse
    \/ TimerFires

SpecSave == Init /\ [][NextSave]_vars

\* the catalog written to the host and read back while sensor frames arrive
NextRound ==
    \/ AddGesture(MaxGestures, FewGestureIDs)
    \/ AddSample(NumSamples, FewSamples)
    \/ ExtConsole({FramePayload}, MaxTicks)
    \/ extshown
    \/ ReceiveWritten

SpecRound == Init /\ [][NextRound]_vars

\* the host channel: responses to any request ever made, in any order and any
\* number of times, and responses to none
NextHost ==
    \/ ReceiveResponse
    \/ extshown
    \/ exthidden
    \/ AddGesture(FewGestures, FewGestures)
    \/ AddSample(FewSamples, FewSamples)
    \/ Elapse
    \/ TimerFires

SpecHost == Init /\ [][NextHost]_vars

\* every handler of the store, on a catalog of one gesture
NextEvents ==
    \/ AddGesture(FewGestures, FewGestures)
    \/ SetCurrentGesture(FewGestures)
    \/ AddSample(FewSamples, FewSamples)
    \/ DeleteSample(FewSamples)
    \/ DeleteGesture
    \/ deleteIfGestureEmpty
    \/ ReceiveAnswer(EventTexts)
    \/ ExtConsole(FeedPayloads, MaxTicks)
    \/ extshown
    \/ exthidden
    \/ Elapse
    \/ TimerFires

SpecEvents == Init /\ [][NextEvents]_vars

\* two gestures trained, selected, deleted and hydrated while sensor frames
\* arrive
NextTrain ==
    \/ AddGesture(MaxGestures, FewGestureIDs)
    \/ SetCurrentGesture(FewGestureIDs)
    \/ AddSample(FewSamples, FewSamples)
    \/ DeleteSample(FewSamples)
    \/ DeleteGesture
    \/ deleteIfGestureEmpty
    \/ ReceiveAnswer(EventTexts)
    \/ ExtConsole({FramePayload}, MaxTicks)

SpecTrain == Init /\ [][NextTrain]_vars

\* the catalog and its hydration when only gestures of the catalog are selected
NextExisting ==
    \/ AddGesture(MaxGestures, MaxGestureID)
    \/ SetExistingGesture
    \/ AddSample(NumSamples, MaxSamples)
    \/ DeleteSample(NumSamples)
    \/ DeleteGesture
    \/ deleteIfGestureEmpty
    \/ ReceiveAnswer(HostTexts)

SpecExisting == Init /\ [][NextExisting]_vars

----------------------------------------------------------------------------
(* Properties *)

\* the gesture records of the published catalog, by value
CatalogRecords == [i \in 1..Len(gestures) |-> heap[gestures[i]]]

\* C1: after every addGesture, deleteGesture, deleteIfGestureEmpty, addSample,
\* deleteSample and hydration from the empty store, the matcher array is as
\* long as the gesture array.  Specification: Spec.
LengthsAgree == Len(models) = Len(gestures)

\* a catalog of two gestures was hydrated and its first gesture deleted
LengthsAgreeWitness ==
    /\ Len(gestures) = 1
    /\ Len(models) = 1
    /\ heap[gestures[1]].gestureID = 2
    /\ heap[gestures[1]].samples = <<Recording(1)>>
    /\ hasBeenModified
    /\ nextGestureID = 3
    /\ \A i \in DOMAIN idToType : idToType[i] # "extreadcode"

\* the value the filter of one axis returns for the k-th frame
RECURSIVE Smooth(_, _)
Smooth(values, k) ==
    IF k = 0 THEN Zero ELSE LowPass(values[k], Smooth(values, k - 1))

\* the conditioned reading of the k-th frame of the stream fs
ConditionedIn(fs, k) ==
    MotionReading(Smooth([i \in 1..Len(fs) |-> fs[i].x], k),
                  Smooth([i \in 1..Len(fs) |-> fs[i].y], k),
                  Smooth([i \in 1..Len(fs) |-> fs[i].z], k))

\* the conditioned reading of the k-th ingested frame
ConditionedAt(k) == ConditionedIn(frames, k)

TickCountsFrames ==
    [][IF Len(frames') = Len(frames) + 1
       THEN latestTimestamp' = latestTimestamp + 1
       ELSE latestTimestamp' = latestTimestamp]_vars

\* two frames were ingested around a catalog edit whose flush was written
TickCountsFramesWitness ==
    /\ latestTimestamp = 2
    /\ Len(frames) = 2
    /\ Len(gestures) = 1
    /\ ~hasBeenModified
    /\ \E i \in DOMAIN idToType : idToType[i] = "extwritecode"
    /\ connected = "false"

\* C4: isMatch(readingIndex) returns true exactly when some recorded match m
\* has m.startTime <= tick <= m.endTime for the tick
\* latestTimestamp - (length - 1 - readingIndex), and changes no state of
\* the store.  Specification: SpecMatch.
IsMatchInclusive ==
    [][\A readingIndex \in 0..(Len(readings) - 1) :
          IsMatchCall(readingIndex) =>
              LET tick == latestTimestamp - (Len(readings) - 1 - readingIndex)
              IN  /\ returned'.result =
                        (\E k \in 1..Len(matches) :
                            matches[k].startTime <= tick /\ tick <= matches[k].endTime)
                  /\ UNCHANGED <<gestures, heap, models, curGestureIndex, hasBeenModified,
                                 connected, readings, latestTimestamp, matches,
                                 previousSmoothed, idToType, timers>>]_vars

\* the only match is Match{5, 10} and isMatch returned true for tick 5
IsMatchInclusiveWitness ==
    /\ matches = <<[startTime |-> 5, endTime |-> 10]>>
    /\ returned.readingIndex >= 0
    /\ MatchTime(returned.readingIndex) = 5
    /\ returned.result

\* C5: while the flag is dirty exactly one flush timer is pending, however
\* many markDirty calls were made; a markDirty call, the first after a flush
\* or a later one, leaves exactly one timer pending and writes nothing; the
\* timer that fires on a dirty flag writes exactly one request, clears the
\* flag and leaves no timer.  Specification: SpecClock.
OneFlushPerWindow ==
    [][/\ hasBeenModified => Cardinality(timers) = 1
       /\ MarkDirty => /\ hasBeenModified'
                       /\ Cardinality(timers') = 1
                       /\ sent' = <<>>
       /\ (TimerFires /\ hasBeenModified) =>
              /\ Len(sent') = 1
              /\ sent'[1].action = "extwritecode"
              /\ requestCount' = requestCount + 1
              /\ ~hasBeenModified'
              /\ timers' = {}
       /\ (TimerFires /\ ~hasBeenModified) =>
              /\ sent' = <<>>
              /\ requestCount' = requestCount]_vars

\* after a first flush, a second window with two markDirty calls and one timer
OneFlushPerWindowWitness ==
    /\ 2 \in DOMAIN idToType
    /\ idToType[2] = "extwritecode"
    /\ hasBeenModified
    /\ Cardinality(timers) = 1
    /\ \E t \in timers : t.elapsed = 2 * TimeStep
    /\ sinceMark = TimeStep

\* C6: a markDirty call made while the flag is dirty resets the pending
\* timer, so that the flush fires a full delay after that call.
\* Specification: SpecClock.
MarkDirtyResetsTimer ==
    [][(MarkDirty /\ hasBeenModified) =>
          /\ timers' # {}
          /\ \A t \in timers' : t.elapsed = 0]_vars

\* C7: the timer that fires on a clean flag sends nothing and changes no
\* state of the store; on a dirty flag it sends exactly one "extwritecode"
\* request whose body holds the serialization of the catalog and the blocks
\* of exactly the running matchers, clears the flag, and leaves the contents
\* of the gesture and matcher arrays as they were.  Specification: SpecSave.
FlushWritesCatalog ==
    [][TimerFires =>
          IF ~hasBeenModified
          THEN /\ sent' = <<>>
               /\ UNCHANGED <<gestures, heap, models, curGestureIndex, hasBeenModified,
                              connected, readings, latestTimestamp, matches,
                              previousSmoothed, idToType, requestCount>>
          ELSE /\ Len(sent') = 1
               /\ sent'[1].action = "extwritecode"
               /\ sent'[1].body.json = ArrayText(JSONrecords(CatalogRecords'))
               /\ LET code == sent'[1].body.code
                      running == {i \in 1..Len(models) : isRunning(models[i])}
                  IN  /\ Len(code) = Cardinality(running)
                      /\ \A i \in running :
                            \E j \in 1..Len(code) : code[j] = generateBlock(models[i])
               /\ ~hasBeenModified'
               /\ CatalogRecords' = CatalogRecords
               /\ models' = models]_vars

\* a flush wrote a catalog of two gestures of which one matcher is running
FlushWritesCatalogWitness ==
    /\ Len(sent) = 1
    /\ sent[1].action = "extwritecode"
    /\ Len(sent[1].body.json.val) = 2
    /\ Len(sent[1].body.code) = 1
    /\ ~hasBeenModified

\* the edits of the user
UserEdit ==
    \/ AddGesture(MaxGestures, FewGestureIDs)
    \/ AddSample(FewSamples, FewSamples)
    \/ DeleteSample(FewSamples)
    \/ DeleteGesture
    \/ deleteIfGestureEmpty

\* C8: every edit of the user that changes the catalog sets the dirty flag
\* (from which the flush timer writes the catalog).  Specification: SpecSave.
EditsSetDirty ==
    [][(UserEdit /\ CatalogRecords' # CatalogRecords) => hasBeenModified']_vars

\* the array a reader holds, with the sample lists of its gestures
ReaderView ==
    [i \in 1..Len(readerArr) |->
        [gestureID |-> heap[readerArr[i]].gestureID,
         samples |-> heap[readerArr[i]].samples]]

\* C9: a reader that took a reference to the published array finds that
\* array and the sample lists of its gestures unchanged after every catalog
\* operation.  Specification: SpecReader.
ReaderUndisturbed ==
    [][(reader # "none" /\ ~takeReference) => ReaderView' = ReaderView]_vars

\* C10: after setCurrentGesture(id), while the gesture with that id stays in
\* the catalog, currentGesture is that gesture and currentModel is its
\* matcher.  Specification: Spec.
CurrentFollowsSelection ==
    selected # 0 =>
        /\ HasCurrentGesture
        /\ heap[currentGesture].gestureID = selected
        /\ HasCurrentModel
        /\ currentModel.classNumber = selected + 1


\* C11: every request a step builds is recorded under a correlation id never
\* used before, one entry a request; a response to a pending id removes its
\* entry and nothing else from the map, so its handler cannot run again; a
\* response to an unknown or consumed id changes no state and builds no
\* request.  Specification: SpecHost.
ResponsesConsumedOnce ==
    [][/\ \A k \in 1..Len(sent') :
             /\ sent'[k].id > requestCount
             /\ sent'[k].id \in DOMAIN idToType'
             /\ idToType'[sent'[k].id] = sent'[k].action
             /\ \A j \in 1..Len(sent') : j # k => sent'[j].id # sent'[k].id
       /\ requestCount' = requestCount + Len(sent')
       /\ \A id \in 0..requestCount, json \in HostTexts :
             receiveResponse(id, json) =>
                 IF id \in DOMAIN idToType
                 THEN /\ id \notin DOMAIN idToType'
                      /\ \A i \in (DOMAIN idToType) \ {id} :
                            i \in DOMAIN idToType' /\ idToType'[i] = idToType[i]
                      /\ idToType[id] \notin {"extinit", "extreadcode"} =>
                            /\ sent' = <<>>
                            /\ CatalogRecords' = CatalogRecords
                            /\ models' = models
                 ELSE /\ sent' = <<>>
                      /\ UNCHANGED <<gestures, heap, models, curGestureIndex,
                                     hasBeenModified, connected, readings,
                                     latestTimestamp, matches, previousSmoothed,
                                     idToType, requestCount, timers>>]_vars

\* the response to "extinit" and a read-code response were consumed, the page
\* was shown again, and the store holds the hydrated catalog
ResponsesConsumedOnceWitness ==
    /\ 1 \notin DOMAIN idToType
    /\ 3 \notin DOMAIN idToType
    /\ requestCount = 5
    /\ Len(gestures) = 2
    /\ sent = <<>>


\* the ids of the gestures of the catalog, in order
CatalogIDs == [i \in 1..Len(gestures) |-> heap[gestures[i]].gestureID]

RoundTripExact ==
    [][\A id \in DOMAIN idToType :
          (idToType[id] = "extreadcode"
              /\ receiveResponse(id, JSONstringify(gestures))) =>
              /\ Len(gestures') = Len(gestures)
              /\ \A i \in 1..Len(gestures) :
                    /\ heap'[gestures'[i]].gestureID = heap[gestures[i]].gestureID
                    /\ heap'[gestures'[i]].name = heap[gestures[i]].name
                    /\ heap'[gestures'[i]].samples = heap[gestures[i]].samples
              /\ Len(models') = Len(gestures)
              /\ \A i \in 1..Len(gestures) :
                    models'[i] =
                        Update(NewModel(heap[gestures[i]].gestureID + 1,
                                        heap[gestures[i]].name),
                               getCroppedData(heap[gestures[i]]), latestTimestamp)]_vars


\* C14: a read-code response whose json is absent, the empty string or the
\* text "null" leaves the gesture array, the matcher array, the current index,
\* the dirty flag, the history buffer and the tick unchanged.
\* Specification: SpecEvents.
EmptyHydrateIsNoOp ==
    [][\A id \in DOMAIN idToType, json \in {Missing, Empty, NullText} :
          (idToType[id] = "extreadcode" /\ receiveResponse(id, json)) =>
              UNCHANGED <<gestures, heap, models, curGestureIndex, hasBeenModified,
                          readings, latestTimestamp>>]_vars

\* a read-code response was consumed; the store holds an edited gesture and
\* two readings
EmptyHydrateIsNoOpWitness ==
    /\ DOMAIN idToType = {2}
    /\ requestCount = 3
    /\ Len(gestures) = 1
    /\ heap[gestures[1]].samples = <<>>
    /\ hasBeenModified
    /\ Len(readings) = 2
    /\ latestTimestamp = 2


\* C15: addSample(g, s) for a gesture g of the catalog puts s in front of g's
\* samples, keeps the other samples of g in their order, leaves the samples
\* of every other gesture and the number and order of the gestures as they
\* were, and sets the dirty flag.  Specification: SpecSave.
AddSampleInsertsAndMarks ==
    [][\A g \in Range(gestures), s \in 1..FewSamples :
          addSample(g, Recording(s), FewSamples) =>
              LET i == IndexOf(gestures, g) + 1
              IN  /\ CatalogIDs' = CatalogIDs
                  /\ CatalogRecords'[i].samples =
                        <<Recording(s)>> \o CatalogRecords[i].samples
                  /\ \A j \in 1..Len(gestures) :
                        j # i => CatalogRecords'[j].samples = CatalogRecords[j].samples
                  /\ hasBeenModified']_vars


\* the sequence without its k-th element (k from 1)
Without(seq, k) == SubSeq(seq, 1, k - 1) \o SubSeq(seq, k + 1, Len(seq))

\* C16: the matcher at every index is the one created for the gesture at that
\* index (class number id + 1 and the gesture's name); deleteGesture(g) of a
\* gesture of the catalog removes g and the matcher at g's index in one step
\* and sets the dirty flag; deleteGesture of a gesture that is not in the
\* catalog changes nothing.  Specification: Spec.
MatchersAlignedByIdentity ==
    [][/\ \A i \in 1..Len(gestures) :
             /\ i <= Len(models)
             /\ models[i].classNumber = heap[gestures[i]].gestureID + 1
             /\ models[i].name = heap[gestures[i]].name
       /\ \A g \in Callable :
             deleteGesture(g) =>
                 IF g \in Range(gestures)
                 THEN /\ CatalogRecords' = Without(CatalogRecords, IndexOf(gestures, g) + 1)
                      /\ models' = Without(models, IndexOf(gestures, g) + 1)
                      /\ hasBeenModified'
                 ELSE UNCHANGED <<gestures, heap, models, curGestureIndex,
                                  hasBeenModified, timers>>]_vars

\* gestures 1 and 2 were added, gesture 1 was deleted and gesture 3 added: the
\* matchers are those of gestures 2 and 3
MatchersAlignedByIdentityWitness ==
    /\ CatalogIDs = <<2, 3>>
    /\ Len(models) = 2
    /\ models[1].classNumber = 3
    /\ models[2].classNumber = 4
    /\ hasBeenModified


\* the matchers other than the one at index k (from 1) are as they were
OthersKept(k) ==
    /\ Len(models') = Len(models)
    /\ \A j \in 1..Len(models) : j # k => models'[j] = models[j]

\* the matcher at index k (from 1) was updated with the data of the gesture
\* at index i at the current tick, and that gesture displays its prototype
UpdatedFrom(k, i) ==
    /\ models'[k].data = getCroppedData(CatalogRecords'[i])
    /\ models'[k].tick = latestTimestamp
    /\ models'[k].classNumber = models[k].classNumber
    /\ CatalogRecords'[i].displayGesture.cls = models[k].classNumber
    /\ CatalogRecords'[i].displayGesture.from = getCroppedData(CatalogRecords'[i])
    /\ OthersKept(k)

FeedLoopOrdering ==
    [][/\ Len(frames') = Len(frames) + 1 =>
             /\ latestTimestamp' = latestTimestamp + 1
             /\ readings'[Len(readings')] = ConditionedIn(frames', Len(frames'))
             /\ IF HasCurrentModel /\ currentModel.running
                THEN /\ models'[curGestureIndex + 1] =
                           [currentModel EXCEPT !.fedAt = latestTimestamp + 1]
                     /\ OthersKept(curGestureIndex + 1)
                     /\ Len(matches') <= Len(matches) + 1
                ELSE /\ models' = models
                     /\ matches' = matches
       /\ Len(frames') = Len(frames) => matches' = matches
       /\ Len(matches') >= Len(matches)
       /\ SubSeq(matches', 1, Len(matches)) = matches]_vars

\* both gestures are trained and the second is current: two frames were fed
\* to its matcher, one of them matched, and the first matcher was fed none
FeedLoopOrderingWitness ==
    /\ Len(models) = 2
    /\ curGestureIndex = 1
    /\ models[1].running
    /\ models[2].running
    /\ models[1].fedAt = 0
    /\ models[2].fedAt = 2
    /\ latestTimestamp = 2
    /\ Len(readings) = 2
    /\ Len(matches) = 1


\* C19: setCurrentGesture(id) with an id that is not in the catalog, called
\* while the current index addresses a gesture, updates no matcher and leaves
\* the current index as it was.  Specification: SpecTrain.
UnknownIdFailsFast ==
    [][\A gestureId \in 1..FewGestureIDs :
          (setCurrentGesture(gestureId) /\ FindGesture(gestureId) < 0 /\ HasCurrentGesture) =>
              /\ models' = models
              /\ curGestureIndex' = curGestureIndex]_vars

\* C20: when the catalog is not empty the current index addresses one of its
\* gestures and the matcher of that gesture, in every state reached by
\* addGesture, setCurrentGesture with an id of the catalog, addSample,
\* deleteSample, deleteGesture, deleteIfGestureEmpty and hydration.
\* Specification: SpecExisting.
CurrentIndexInRange ==
    Len(gestures) > 0 =>
        /\ 0 <= curGestureIndex
        /\ curGestureIndex < Len(gestures)
        /\ HasCurrentGesture
        /\ HasCurrentModel

====
